---- MODULE Spec2Model ----
(***************************************************************************)
(* A top-to-bottom run of cnn_graph/usage.ipynb: synthetic data, the       *)
(* train/validation/test split, the feature graph, its coarsening, the     *)
(* Laplacians, the hyper-parameters, and the calls into the library        *)
(* (graph, coarsening, models).                                            *)
(*                                                                         *)
(* Samples are identified by their 1-based row number in X.  A matrix is   *)
(* a record [rows, cols]: the sequence of sample ids of its rows and its   *)
(* number of columns; its transpose is described by its shape alone.  The  *)
(* target t is a vector of small integers: the labelling of the notebook   *)
(* only compares t against t.mean() +- 0.4 t.std(), which is invariant     *)
(* under a positive rescaling of t, so integers stand for the reals of     *)
(* tanh's range.                                                           *)
(***************************************************************************)
EXTENDS Integers, Sequences, FiniteSets, TLC

VARIABLES pc, halted, n, t, X, y, n_train, n_val,
          X_train, X_val, X_test, y_train, y_val, y_test,
          dist, A, graphs, perm, L, params, C, model, res, calls

vars == << pc, halted, n, t, X, y, n_train, n_val,
           X_train, X_val, X_test, y_train, y_val, y_test,
           dist, A, graphs, perm, L, params, C, model, res, calls >>

-----------------------------------------------------------------------------
(* Bounds of the model. *)

\* Largest number of samples n when t takes its values in -TMax..TMax.
MaxN == 4

\* Largest magnitude of an entry of t.
TMax == 1

\* Largest number of samples n when t takes its values in 0..1.
MaxNWide == 11

\* How many sizes above the minimum the coarsest graph may have.
CoarsenSlack == 1

-----------------------------------------------------------------------------
(* Constants of the notebook. *)

\* d = 100    # Dimensionality.
d == 100

\* k=10 in graph.distance_scipy_spatial(X_train.T, k=10, ...)
k == 10

\* Faulty variant: one coarsening too few.
levels_alt == 1 + 1

\* levels=3 in coarsening.coarsen(A, levels=3, ...)
levels == 3

\* params['p'] = [4, 2]    # Pooling sizes.
PoolingSizes == << 4, 2 >>

-----------------------------------------------------------------------------
(* The statements of the notebook, top to bottom. *)

\* Faulty variant: the evaluation cell run before the training call.
Program_alt ==
    << "data", "split", "distance", "adjacency", "assert_shape",
       "coarsen", "perm_train", "perm_val", "perm_test",
       "laplacian", "plot_spectrum",
       "params", "classes", "assert_classes", "architecture",
       "cgcnn", "evaluate", "plot_convergence", "print_t_step",
       "fit", "print_res", "done" >>

Program ==
    << "data", "split", "distance", "adjacency", "assert_shape",
       "coarsen", "perm_train", "perm_val", "perm_test",
       "laplacian", "plot_spectrum",
       "params", "classes", "assert_classes", "architecture",
       "cgcnn", "fit", "plot_convergence", "print_t_step",
       "evaluate", "print_res", "done" >>

\* The statement the run is about to execute, if it has not stopped.
At(stmt) == halted = "" /\ Program[pc] = stmt

\* Position of a statement in the notebook.
Pos(stmt) == CHOOSE i \in 1..Len(Program) : Program[i] = stmt

\* The statement has been executed and has returned.
Past(stmt) == pc > Pos(stmt)

-----------------------------------------------------------------------------
(* Python and numpy helpers. *)

RECURSIVE SumSeq(_)
SumSeq(s) == IF s = << >> THEN 0 ELSE Head(s) + SumSeq(Tail(s))

Range(s) == { s[i] : i \in DOMAIN s }

MaxOf(S) == CHOOSE m \in S : \A x \in S : x <= m

Min2(a, b) == IF a <= b THEN a ELSE b

Ceil(a, b) == (a + b - 1) \div b

RECURSIVE Pow2(_)
Pow2(e) == IF e = 0 THEN 1 ELSE 2 * Pow2(e - 1)

RECURSIVE Product(_)
Product(s) == IF s = << >> THEN 1 ELSE Head(s) * Product(Tail(s))

IsPrefix(s, u) == Len(s) <= Len(u) /\ SubSeq(u, 1, Len(s)) = s

\* The sample ids selected by the slice [start:stop] of an array of len rows
\* (0-based, stop exclusive, both clamped to len as Python does).
Slice(len, start, stop) ==
    LET a == Min2(start, len)
        b == Min2(stop, len)
    IN  [ i \in 1..(IF b > a THEN b - a ELSE 0) |-> a + i ]

\* n times the deviation of t[i] from t.mean().
Dev(tt, i) == Len(tt) * tt[i] - SumSeq(tt)

\* (n * t.std())^2.
NStd2(tt) == Len(tt) * SumSeq([ i \in DOMAIN tt |-> tt[i] * tt[i] ]) - SumSeq(tt) * SumSeq(tt)

\* y = 1; y[t > t.mean() + 0.4 * t.std()] = 0; y[t < t.mean() - 0.4 * t.std()] = 2
\* (x > 0.4 s  iff  x > 0 and 25 x^2 > 4 s^2, for s >= 0).
Labels(tt) ==
    [ i \in DOMAIN tt |->
        IF Dev(tt, i) < 0 /\ 25 * Dev(tt, i) * Dev(tt, i) > 4 * NStd2(tt) THEN 2
        ELSE IF Dev(tt, i) > 0 /\ 25 * Dev(tt, i) * Dev(tt, i) > 4 * NStd2(tt) THEN 0
        ELSE 1 ]

\* The values a view selects from its base vector.
Values(base, view) == [ i \in DOMAIN view |-> base[view[i]] ]

\* Shape of a matrix and of its transpose.
Shape(M) == << Len(M.rows), M.cols >>

Transposed(shape) == << shape[2], shape[1] >>

NoMatrix == [ rows |-> << >>, cols |-> 0 ]

-----------------------------------------------------------------------------
(* The library, by its usage contract: what each call returns. *)

\* graph.distance_scipy_spatial(z, k, metric) -> (dist, idx): one row of k
\* neighbours per row of z.
distance_scipy_spatial(zshape, kk) == [ rows |-> zshape[1], k |-> kk ]

\* graph.adjacency(dist, idx) -> A: a square matrix, one vertex per row of dist.
adjacency(dd) == << dd.rows, dd.rows >>

\* Sizes the coarsest graph may have: each coarsening merges vertices at
\* most two by two.
CoarsestSizes(size, lv) == Ceil(size, Pow2(lv)) .. (Ceil(size, Pow2(lv)) + CoarsenSlack)

\* coarsening.coarsen(A, levels, self_connections) -> (graphs, perm): the
\* graph and its lv coarsened versions, finest first, padded with fake
\* vertices so that each level is twice the next; m is the coarsest size.
coarsen_graphs(lv, m) == [ i \in 1..(lv + 1) |-> [ level |-> i - 1, size |-> m * Pow2(lv - (i - 1)) ] ]

\* Length of perm: the padded size of the finest graph.
coarsen_perm(lv, m) == m * Pow2(lv)

\* coarsening.perm_data(X, perm) -> X': the same rows, the columns
\* rearranged and padded to len(perm).
perm_data(M, pp) == [ rows |-> M.rows, cols |-> pp ]

\* graph.laplacian(A, normalized) -> L
laplacian(G, norm) == [ of |-> G, normalized |-> norm ]

\* The library calls that receive a data matrix, with the number of
\* samples (or of coordinates, for the transposed matrix) they receive.
\* What the library does with none is outside its usage contract.
DataSize(stmt) ==
    CASE stmt = "distance"   -> n_train
      [] stmt = "perm_train" -> Len(X_train.rows)
      [] stmt = "perm_val"   -> Len(X_val.rows)
      [] stmt = "perm_test"  -> Len(X_test.rows)
      [] stmt = "fit"        -> Min2(Len(X_train.rows), Len(X_val.rows))
      [] stmt = "evaluate"   -> Len(X_test.rows)
      [] OTHER               -> 1

CallName(stmt) ==
    CASE stmt = "distance"   -> << "graph.distance_scipy_spatial", "X_train.T" >>
      [] stmt = "perm_train" -> << "coarsening.perm_data", "X_train" >>
      [] stmt = "perm_val"   -> << "coarsening.perm_data", "X_val" >>
      [] stmt = "perm_test"  -> << "coarsening.perm_data", "X_test" >>
      [] stmt = "fit"        -> << "model.fit", "X_train, y_train, X_val, y_val" >>
      [] stmt = "evaluate"   -> << "model.evaluate", "X_test, y_test" >>

-----------------------------------------------------------------------------
(* The expressions of the notebook. *)

\* X_train = X[:n_train]
XTrainRows(len, ntr, nv) == Slice(len, 0, ntr)

\* X_val = X[n_train:n_train+n_val]
XValRows(len, ntr, nv) == Slice(len, ntr, ntr + nv)

\* X_test = X[n_train+n_val:]
XTestRows(len, ntr, nv) == Slice(len, ntr + nv, len)

\* y_train = y[:n_train]
YTrainRows(len, ntr, nv) == Slice(len, 0, ntr)

\* Faulty variant: y_val = y[n_train:n_val]
YValRows_alt(len, ntr, nv) == Slice(len, ntr, nv)

\* y_val = y[n_train:n_train+n_val]
YValRows(len, ntr, nv) == Slice(len, ntr, ntr + nv)

\* y_test = y[n_train+n_val:]
YTestRows(len, ntr, nv) == Slice(len, ntr + nv, len)

\* Faulty variant: X_train passed without the transpose.
GraphInput_alt(M) == Shape(M)

\* X_train.T, the argument of graph.distance_scipy_spatial
GraphInput(M) == Transposed(Shape(M))

\* assert A.shape == (d, d)
ShapeAssertion(shape) == shape = << d, d >>

\* Faulty variant: C = y.max()
NumClasses_alt(yy) == MaxOf(Range(yy))

\* C = y.max() + 1
NumClasses(yy) == MaxOf(Range(yy)) + 1

\* assert C == np.unique(y).size
ClassAssertion(cc, yy) == cc = Cardinality(Range(yy))

\* Faulty variant: the comprehension skips the finest graph.
LaplacianSource_alt(gs, done) == gs[IF done + 2 <= Len(gs) THEN done + 2 ELSE Len(gs)]

\* The graph the comprehension [... for A in graphs] visits after `done`
\* iterations.
LaplacianSource(gs, done) == gs[done + 1]

-----------------------------------------------------------------------------
(* Initial states: the number of samples and the random target. *)

NoModel == [ built |-> FALSE, L |-> << >>, M |-> << >>, fitted |-> FALSE ]

InitWith(N, TV) ==
    /\ pc = 1
    /\ halted = ""
    /\ n \in 0..N
    /\ t \in [ 1..n -> TV ]
    /\ X = NoMatrix
    /\ y = << >>
    /\ n_train = 0
    /\ n_val = 0
    /\ X_train = NoMatrix
    /\ X_val = NoMatrix
    /\ X_test = NoMatrix
    /\ y_train = << >>
    /\ y_val = << >>
    /\ y_test = << >>
    /\ dist = [ rows |-> 0, k |-> 0 ]
    /\ A = << 0, 0 >>
    /\ graphs = << >>
    /\ perm = 0
    /\ L = << >>
    /\ params = << >>
    /\ C = 0
    /\ model = NoModel
    /\ res = << >>
    /\ calls = << >>

Init == InitWith(MaxN, (0 - TMax)..TMax)

InitWide == InitWith(MaxNWide, 0..1)

-----------------------------------------------------------------------------
(* One action per statement. *)

Step == pc' = pc + 1 /\ halted' = halted

Call(fn, arg) == calls' = Append(calls, << fn, arg >>)

\* Cell "1 Data": the data matrix and the labels.
Data ==
    /\ At("data")
    /\ X' = [ rows |-> [ i \in 1..n |-> i ], cols |-> d ]
    /\ y' = Labels(t)
    /\ Step
    /\ UNCHANGED << n, t, n_train, n_val, X_train, X_val, X_test, y_train, y_val,
                    y_test, dist, A, graphs, perm, L, params, C, model, res, calls >>

\* Training, validation and testing sets.
Split ==
    /\ At("split")
    /\ n_train' = n \div 2
    /\ n_val' = n \div 10
    /\ X_train' = [ rows |-> XTrainRows(Len(X.rows), n_train', n_val'), cols |-> X.cols ]
    /\ X_val' = [ rows |-> XValRows(Len(X.rows), n_train', n_val'), cols |-> X.cols ]
    /\ X_test' = [ rows |-> XTestRows(Len(X.rows), n_train', n_val'), cols |-> X.cols ]
    /\ y_train' = YTrainRows(Len(y), n_train', n_val')
    /\ y_val' = YValRows(Len(y), n_train', n_val')
    /\ y_test' = YTestRows(Len(y), n_train', n_val')
    /\ Step
    /\ UNCHANGED << n, t, X, y, dist, A, graphs, perm, L, params, C, model, res, calls >>

Distance ==
    /\ At("distance")
    /\ Call("graph.distance_scipy_spatial", "X_train.T")
    /\ dist' = distance_scipy_spatial(GraphInput(X_train), k)
    /\ Step
    /\ UNCHANGED << n, t, X, y, n_train, n_val, X_train, X_val, X_test, y_train, y_val,
                    y_test, A, graphs, perm, L, params, C, model, res >>

Adjacency ==
    /\ At("adjacency")
    /\ Call("graph.adjacency", "dist, idx")
    /\ A' = adjacency(dist)
    /\ Step
    /\ UNCHANGED << n, t, X, y, n_train, n_val, X_train, X_val, X_test, y_train, y_val,
                    y_test, dist, graphs, perm, L, params, C, model, res >>

AssertShape ==
    /\ At("assert_shape")
    /\ IF ShapeAssertion(A)
         THEN Step
         ELSE pc' = pc /\ halted' = "AssertionError: A.shape == (d, d)"
    /\ UNCHANGED << n, t, X, y, n_train, n_val, X_train, X_val, X_test, y_train, y_val,
                    y_test, dist, A, graphs, perm, L, params, C, model, res, calls >>

Coarsen ==
    /\ At("coarsen")
    /\ Call("coarsening.coarsen", "A")
    /\ \E m \in CoarsestSizes(A[1], levels) :
          /\ graphs' = coarsen_graphs(levels, m)
          /\ perm' = coarsen_perm(levels, m)
    /\ Step
    /\ UNCHANGED << n, t, X, y, n_train, n_val, X_train, X_val, X_test, y_train, y_val,
                    y_test, dist, A, L, params, C, model, res >>

PermTrain ==
    /\ At("perm_train")
    /\ Call("coarsening.perm_data", "X_train")
    /\ X_train' = perm_data(X_train, perm)
    /\ Step
    /\ UNCHANGED << n, t, X, y, n_train, n_val, X_val, X_test, y_train, y_val,
                    y_test, dist, A, graphs, perm, L, params, C, model, res >>

PermVal ==
    /\ At("perm_val")
    /\ Call("coarsening.perm_data", "X_val")
    /\ X_val' = perm_data(X_val, perm)
    /\ Step
    /\ UNCHANGED << n, t, X, y, n_train, n_val, X_train, X_test, y_train, y_val,
                    y_test, dist, A, graphs, perm, L, params, C, model, res >>

PermTest ==
    /\ At("perm_test")
    /\ Call("coarsening.perm_data", "X_test")
    /\ X_test' = perm_data(X_test, perm)
    /\ Step
    /\ UNCHANGED << n, t, X, y, n_train, n_val, X_train, X_val, y_train, y_val,
                    y_test, dist, A, graphs, perm, L, params, C, model, res >>

\* L = [graph.laplacian(A, normalized=True) for A in graphs]: one
\* iteration, or the end of the comprehension.
Laplacian ==
    /\ At("laplacian")
    /\ IF Len(L) < Len(graphs)
         THEN /\ Call("graph.laplacian", ToString(LaplacianSource(graphs, Len(L)).level))
              /\ L' = Append(L, laplacian(LaplacianSource(graphs, Len(L)), TRUE))
              /\ pc' = pc
              /\ halted' = halted
         ELSE /\ Step
              /\ UNCHANGED << L, calls >>
    /\ UNCHANGED << n, t, X, y, n_train, n_val, X_train, X_val, X_test, y_train, y_val,
                    y_test, dist, A, graphs, perm, params, C, model, res >>

PlotSpectrum ==
    /\ At("plot_spectrum")
    /\ Call("graph.plot_spectrum", "L")
    /\ Step
    /\ UNCHANGED << n, t, X, y, n_train, n_val, X_train, X_val, X_test, y_train, y_val,
                    y_test, dist, A, graphs, perm, L, params, C, model, res >>

\* params = dict() and the entries set before the number of classes.
Params ==
    /\ At("params")
    /\ params' = ("dir_name" :> "demo") @@ ("num_epochs" :> 40) @@ ("batch_size" :> 100)
                 @@ ("eval_frequency" :> 200) @@ ("filter" :> "chebyshev5")
                 @@ ("brelu" :> "b1relu") @@ ("pool" :> "apool1")
    /\ Step
    /\ UNCHANGED << n, t, X, y, n_train, n_val, X_train, X_val, X_test, y_train, y_val,
                    y_test, dist, A, graphs, perm, L, C, model, res, calls >>

\* C = y.max() + 1; numpy raises ValueError on an empty y.
Classes ==
    /\ At("classes")
    /\ IF y = << >>
         THEN /\ pc' = pc
              /\ halted' = "ValueError: zero-size array to reduction operation maximum"
              /\ C' = C
         ELSE /\ C' = NumClasses(y)
              /\ Step
    /\ UNCHANGED << n, t, X, y, n_train, n_val, X_train, X_val, X_test, y_train, y_val,
                    y_test, dist, A, graphs, perm, L, params, model, res, calls >>

AssertClasses ==
    /\ At("assert_classes")
    /\ IF ClassAssertion(C, y)
         THEN Step
         ELSE pc' = pc /\ halted' = "AssertionError: C == np.unique(y).size"
    /\ UNCHANGED << n, t, X, y, n_train, n_val, X_train, X_val, X_test, y_train, y_val,
                    y_test, dist, A, graphs, perm, L, params, C, model, res, calls >>

\* Architecture and optimization entries of params; float literals are
\* kept as written, decay_steps as the pair (numerator, denominator).
Architecture ==
    /\ At("architecture")
    /\ params' = params @@ ("F" :> << 32, 64 >>) @@ ("K" :> << 20, 20 >>)
                 @@ ("p" :> PoolingSizes) @@ ("M" :> << 512, C >>)
                 @@ ("regularization" :> "5e-4") @@ ("dropout" :> 1)
                 @@ ("learning_rate" :> "1e-3") @@ ("decay_rate" :> "0.95")
                 @@ ("momentum" :> "0.9")
                 @@ ("decay_steps" :> << n_train, params["batch_size"] >>)
    /\ Step
    /\ UNCHANGED << n, t, X, y, n_train, n_val, X_train, X_val, X_test, y_train, y_val,
                    y_test, dist, A, graphs, perm, L, C, model, res, calls >>

Cgcnn ==
    /\ At("cgcnn")
    /\ Call("models.cgcnn", "L, **params")
    /\ model' = [ built |-> TRUE, L |-> L, M |-> params["M"], fitted |-> FALSE ]
    /\ Step
    /\ UNCHANGED << n, t, X, y, n_train, n_val, X_train, X_val, X_test, y_train, y_val,
                    y_test, dist, A, graphs, perm, L, params, C, res >>

Fit ==
    /\ At("fit")
    /\ Call("model.fit", "X_train, y_train, X_val, y_val")
    /\ model' = [ model EXCEPT !.fitted = TRUE ]
    /\ Step
    /\ UNCHANGED << n, t, X, y, n_train, n_val, X_train, X_val, X_test, y_train, y_val,
                    y_test, dist, A, graphs, perm, L, params, C, res >>

\* The convergence plot (matplotlib only).
PlotConvergence ==
    /\ At("plot_convergence")
    /\ Step
    /\ UNCHANGED << n, t, X, y, n_train, n_val, X_train, X_val, X_test, y_train, y_val,
                    y_test, dist, A, graphs, perm, L, params, C, model, res, calls >>

PrintTStep ==
    /\ At("print_t_step")
    /\ Step
    /\ UNCHANGED << n, t, X, y, n_train, n_val, X_train, X_val, X_test, y_train, y_val,
                    y_test, dist, A, graphs, perm, L, params, C, model, res, calls >>

Evaluate ==
    /\ At("evaluate")
    /\ Call("model.evaluate", "X_test, y_test")
    /\ res' = << [ fitted |-> model.fitted, X |-> X_test, y |-> Values(y, y_test) ] >>
    /\ Step
    /\ UNCHANGED << n, t, X, y, n_train, n_val, X_train, X_val, X_test, y_train, y_val,
                    y_test, dist, A, graphs, perm, L, params, C, model >>

PrintRes ==
    /\ At("print_res")
    /\ Step
    /\ UNCHANGED << n, t, X, y, n_train, n_val, X_train, X_val, X_test, y_train, y_val,
                    y_test, dist, A, graphs, perm, L, params, C, model, res, calls >>

\* A library call that is given no data at all may raise instead of
\* returning.
LibraryRaises ==
    \E stmt \in { "distance", "perm_train", "perm_val", "perm_test", "fit", "evaluate" } :
        /\ At(stmt)
        /\ DataSize(stmt) = 0
        /\ Call(CallName(stmt)[1], CallName(stmt)[2])
        /\ pc' = pc
        /\ halted' = "library error"
        /\ UNCHANGED << n, t, X, y, n_train, n_val, X_train, X_val, X_test, y_train,
                        y_val, y_test, dist, A, graphs, perm, L, params, C, model, res >>

Next ==
    \/ Data
    \/ Split
    \/ Distance
    \/ Adjacency
    \/ AssertShape
    \/ Coarsen
    \/ PermTrain
    \/ PermVal
    \/ PermTest
    \/ Laplacian
    \/ PlotSpectrum
    \/ Params
    \/ Classes
    \/ AssertClasses
    \/ Architecture
    \/ Cgcnn
    \/ Fit
    \/ PlotConvergence
    \/ PrintTStep
    \/ Evaluate
    \/ PrintRes
    \/ LibraryRaises

Spec == Init /\ [][Next]_vars

SpecWide == InitWide /\ [][Next]_vars

-----------------------------------------------------------------------------
(* Properties. *)

Called(fn) == \E i \in DOMAIN calls : calls[i][1] = fn

\* A run that went through every statement.
Completed == halted = "" /\ Program[pc] = "done"

LaplacianCalls(ng) == [ i \in 1..ng |-> << "graph.laplacian", ToString(i - 1) >> ]

GraphCalls ==
    << << "graph.distance_scipy_spatial", "X_train.T" >>,
       << "graph.adjacency", "dist, idx" >>,
       << "coarsening.coarsen", "A" >>,
       << "coarsening.perm_data", "X_train" >>,
       << "coarsening.perm_data", "X_val" >>,
       << "coarsening.perm_data", "X_test" >> >>

ModelCalls ==
    << << "models.cgcnn", "L, **params" >>,
       << "model.fit", "X_train, y_train, X_val, y_val" >>,
       << "model.evaluate", "X_test, y_test" >> >>

\* The calls of a whole run, as the notebook makes them.
ExpectedCalls(ng) ==
    GraphCalls \o LaplacianCalls(ng) \o << << "graph.plot_spectrum", "L" >> >> \o ModelCalls

\* The calls of a whole run, as the usage contract lists them.
ListedCalls(ng) == GraphCalls \o LaplacianCalls(ng) \o ModelCalls

\* The orderings singled out by the usage contract.
CallPrecedences ==
    /\ Called("model.evaluate") => Called("model.fit") /\ Past("fit") /\ model.fitted
    /\ Called("model.fit") =>
          /\ Past("perm_train") /\ Past("perm_val")
          /\ X_train.cols = perm /\ X_val.cols = perm
    /\ Called("models.cgcnn") =>
          /\ Len(graphs) = levels + 1
          /\ Len(L) = Len(graphs)

\* C1 as stated: the library calls of a run are, in order, exactly
\* distance_scipy_spatial, adjacency, coarsen, perm_data (three times),
\* laplacian (once per graph), cgcnn, fit, evaluate, and nothing else.
C1_ListedOrder ==
    /\ IsPrefix(calls, ListedCalls(Len(graphs)))
    /\ Completed => calls = ListedCalls(Len(graphs))
    /\ CallPrecedences

\* C1 amended: the library calls of a run are, in order, exactly
\* distance_scipy_spatial, adjacency, coarsen, perm_data on X_train, X_val
\* and X_test, laplacian once per graph, plot_spectrum, cgcnn, fit,
\* evaluate; a run that stops early has made a prefix of them.  evaluate is
\* never called before fit has returned, fit never before X_train and X_val
\* went through perm_data, cgcnn never before every Laplacian is computed.
C1_CallOrder ==
    /\ IsPrefix(calls, ExpectedCalls(Len(graphs)))
    /\ Completed => calls = ExpectedCalls(Len(graphs))
    /\ CallPrecedences

C1_Witness == Completed /\ Called("model.evaluate") /\ Len(calls) = 14

\* C2: at the class-count assertion, for every non-empty label vector over
\* {0, 1, 2} of the run's length, C == np.unique(y).size with
\* C = y.max() + 1 passes iff the labels present are exactly 0..max(y);
\* and a run stopped by the assertion has not set params['M'] and never
\* calls models.cgcnn, model.fit or model.evaluate.
C2_ClassCount ==
    /\ At("assert_classes") =>
          /\ C = NumClasses(y)
          /\ \A yy \in [ 1..n -> 0..2 ] :
                ClassAssertion(NumClasses(yy), yy) <=> (Range(yy) = 0..MaxOf(Range(yy)))
    /\ (Past("classes") /\ Range(y) # 0..MaxOf(Range(y))) =>
          /\ ~Past("assert_classes")
          /\ "M" \notin DOMAIN params
          /\ ~Called("models.cgcnn") /\ ~Called("model.fit") /\ ~Called("model.evaluate")
    /\ halted = "AssertionError: C == np.unique(y).size" =>
          /\ Range(y) # 0..MaxOf(Range(y))
          /\ "M" \notin DOMAIN params
          /\ ~model.built /\ res = << >>

C2_Witness ==
    /\ halted = "AssertionError: C == np.unique(y).size"
    /\ Range(y) = { 0, 2 }
    /\ Len(L) = Len(graphs)

\* C3: the assertion A.shape == (d, d) never fails: the graph is built from
\* X_train.T, whose d rows are the features, so A is d x d whatever n,
\* n_train >= 1 and n_val are.
C3_ShapeAssertionHolds ==
    (n \div 2) >= 1 =>
        /\ halted # "AssertionError: A.shape == (d, d)"
        /\ Past("distance") => dist.rows = d
        /\ Past("adjacency") => A = << d, d >> /\ ShapeAssertion(A)

C3_Witness == Past("assert_shape") /\ n_train >= 1 /\ n_val >= 1 /\ n_train # d

\* C4: L holds exactly one Laplacian per graph returned by coarsen, in the
\* order of graphs (finest first): while it is built it is the list of the
\* Laplacians of the first graphs, and the model receives it complete.
C4_OneLaplacianPerGraph ==
    /\ Len(L) <= Len(graphs)
    /\ \A i \in DOMAIN L : L[i].of = graphs[i] /\ L[i].of.level = i - 1
    /\ Past("laplacian") => Len(L) = Len(graphs)
    /\ model.built => model.L = L /\ Len(model.L) = Len(graphs)

C4_Witness == model.built /\ Len(model.L) = levels + 1 /\ model.L[levels + 1].of = graphs[levels + 1]

\* Number of coarsenings coarsen was asked for.
Coarsenings == Len(graphs) - 1

Ids(start, stop) == [ i \in 1..(stop - start) |-> start + i ]

\* C6: the three sets partition the samples: with n_train = n // 2 and
\* n_val = n // 10 they are the index ranges [0, n_train),
\* [n_train, n_train + n_val) and [n_train + n_val, n), pairwise disjoint
\* and covering every sample exactly once, and the X and y parts of a set
\* select the same samples in the same order.
C6_SplitPartitions ==
    Past("split") =>
        /\ n_train = n \div 2 /\ n_val = n \div 10
        /\ X_train.rows = Ids(0, n_train)
        /\ X_val.rows = Ids(n_train, n_train + n_val)
        /\ X_test.rows = Ids(n_train + n_val, n)
        /\ Range(X_train.rows) \cap Range(X_val.rows) = {}
        /\ Range(X_train.rows) \cap Range(X_test.rows) = {}
        /\ Range(X_val.rows) \cap Range(X_test.rows) = {}
        /\ Range(X_train.rows) \cup Range(X_val.rows) \cup Range(X_test.rows) = 1..n
        /\ Len(X_train.rows) + Len(X_val.rows) + Len(X_test.rows) = n
        /\ y_train = X_train.rows /\ y_val = X_val.rows /\ y_test = X_test.rows
        /\ res # << >> => res[1].X.rows = y_test /\ res[1].y = Values(Labels(t), y_test)

C6_Witness ==
    /\ Past("split")
    /\ Len(X_train.rows) >= 1 /\ Len(X_val.rows) >= 1 /\ Len(X_test.rows) >= 1
    /\ res # << >>

====
